---- MODULE Spec2Model ----
(***************************************************************************)
(* Model of invoke's Executor (src/invoke/executor.py).                    *)
(*                                                                         *)
(* A session is one Collection/Executor pairing.  The collection maps the  *)
(* names in Tasks to tasks; every other name (Unknown) does not resolve.   *)
(* Each task has a declared prerequisite list `pre` (names, possibly       *)
(* repeated, possibly naming the task itself or an unknown name) and a     *)
(* `called` flag.  Executor.execute() is synchronous and single-threaded,  *)
(* so one execute() call is one action; the order of the invocations it    *)
(* makes is recorded in `trace`.                                           *)
(***************************************************************************)
EXTENDS Integers, Sequences, FiniteSets, TLC

\* Names the collection resolves.
Tasks == {"A", "B", "C"}

\* A name the collection does not resolve.
Unknown == "X"

\* Every name that may be passed to execute() or be listed in a pre list.
Names == Tasks \cup {Unknown}

\* Bound: total number of prerequisite entries declared in the collection.
MaxDeps == 3

\* Bound: number of execute() calls in one session.
MaxCalls == 2

VARIABLES pre, contextualized, context, called, ncalls, name, dedupe, kwargs,
          called0, trace, args, failed, outcome, error, retval, ever,
          succeeded

\* pre       : the collection: each task's declared prerequisite names
\* contextualized : the collection: whether each task wants a context
\* context   : the executor's own (base) context, self.context
\* kwargs    : kwargs argument of the latest call: <<>> when omitted, <<m>>
\*             when the mapping m was given
\* args      : for each invocation in trace, what the task was called with:
\*             its positional arguments and its keyword arguments
\* called    : each task's "already run this session" flag
\* ncalls    : number of execute() calls made so far in the session
\* name      : root name given to the latest execute() call
\* dedupe    : dedupe argument of the latest call
\* called0   : the called flags as they were when the latest call started
\* trace     : the tasks invoked by the latest call, in invocation order
\* failed    : position in trace of the invocation whose body raised (0: none)
\* outcome   : "none" (no call yet), "returned" or "raised"
\* error     : "none", "TaskNotFound", "InvocationError" or "MissingResult"
\* retval    : the value the latest call returned (NoValue if it raised)
\* ever      : history: tasks invoked at least once in the session
\* succeeded : history: tasks whose body completed at least once
vars == <<pre, contextualized, context, called, ncalls, name, dedupe, kwargs,
          called0, trace, args, failed, outcome, error, retval, ever,
          succeeded>>

\* The result of the idx-th invocation made by the call-th execute() call.
\* Task bodies are opaque; every invocation yields its own result value.
Result(call, idx) == [call |-> call, idx |-> idx]

NoValue == [call |-> 0, idx |-> 0]

\* The empty mapping, {}.
EmptyDict == <<>>

\* The context the Executor is constructed with.
BaseContext == [x |-> "base", z |-> "base"]

\* collection.configuration(t): A's overrides a key of the base context, B's
\* adds a key, C's is empty.
Configuration(t) ==
    IF t = "A" THEN [x |-> "A"]
    ELSE IF t = "B" THEN [y |-> "B"]
    ELSE EmptyDict

\* The kwargs arguments given to execute(): omitted, or a mapping.
KwargsGiven == {<<>>, <<[myarg |-> "foo"]>>}

\* context.clone(): an independent copy with the same content.
Clone(c) == c

\* context.update(m): the keys of m are set in c, overriding.
Update(c, m) == m @@ c

\* kwargs = kwargs or {}
KwargsOrEmpty(kw) == IF kw = <<>> THEN EmptyDict ELSE kw[1]

\* x in s, for a list s (Python's `in` on a list).
Has(s, x) == \E i \in 1..Len(s) : s[i] = x

\* The set of elements of a list.
Range(s) == {s[i] : i \in 1..Len(s)}

\* collection[n] succeeds (it raises the lookup error otherwise).
Resolves(n) == n \in Tasks

\* Task.__call__ completing: the task's called flag becomes true.
TaskCall(c, t) == [c EXCEPT ![t] = TRUE]

\* Mutation: prerequisites are expanded a second level: the prerequisites of
\* every resolving prerequisite are put in front of the list.
TaskNamesDeep(n) ==
    LET sub(i) == IF Resolves(pre[n][i]) THEN pre[pre[n][i]] ELSE <<>>
        RECURSIVE deep(_)
        deep(i) == IF i > Len(pre[n]) THEN <<>> ELSE sub(i) \o deep(i + 1)
    IN deep(1) \o pre[n] \o <<n>>

\* Mutation: the root is put in front of its prerequisites.
TaskNamesRootFirst(n) == <<n>> \o pre[n]

\* task_names = list(task.pre) + [name]
TaskNames(n) == pre[n] \o <<n>>

\* Mutation: no compaction, the list is kept with its duplicates.
CompactLoopNone(rest, compact_tasks) == compact_tasks \o rest

\* Compaction loop: keep the first occurrence of every name.
RECURSIVE CompactLoop(_, _)
CompactLoop(rest, compact_tasks) ==
    IF rest = <<>> THEN compact_tasks
    ELSE LET tname == Head(rest) IN
         CompactLoop(Tail(rest),
                     IF ~Has(compact_tasks, tname)
                     THEN Append(compact_tasks, tname)
                     ELSE compact_tasks)

\* Mutation: the already-called test is dropped; every resolving name stays.
RECURSIVE FilterLoopKeepCalled(_, _, _)
FilterLoopKeepCalled(rest, tasks, c) ==
    IF rest = <<>> THEN [ok |-> TRUE, tasks |-> tasks]
    ELSE LET tname == Head(rest) IN
         IF ~Resolves(tname) THEN [ok |-> FALSE, tasks |-> tasks]
         ELSE FilterLoopKeepCalled(Tail(rest), Append(tasks, tname), c)

\* Mutation: the names are not looked up by the filter; a name that does
\* not resolve stays in the list.
RECURSIVE FilterLoopLazy(_, _, _)
FilterLoopLazy(rest, tasks, c) ==
    IF rest = <<>> THEN [ok |-> TRUE, tasks |-> tasks]
    ELSE LET tname == Head(rest) IN
         FilterLoopLazy(Tail(rest),
                        IF Resolves(tname) /\ c[tname] THEN tasks
                        ELSE Append(tasks, tname),
                        c)

\* Removal of already-called tasks; the lookup of a name raises if the name
\* does not resolve (ok = FALSE).
RECURSIVE FilterLoop(_, _, _)
FilterLoop(rest, tasks, c) ==
    IF rest = <<>> THEN [ok |-> TRUE, tasks |-> tasks]
    ELSE LET tname == Head(rest) IN
         IF ~Resolves(tname) THEN [ok |-> FALSE, tasks |-> tasks]
         ELSE FilterLoop(Tail(rest),
                         IF ~c[tname] THEN Append(tasks, tname) ELSE tasks,
                         c)

\* Mutation: the dedupe argument is ignored, the task list runs as is.
SelectNoDedupe(task_names, d, c) == [ok |-> TRUE, tasks |-> task_names]

\* Mutation: the dedupe branch is taken whatever the dedupe argument.
SelectAlwaysDedupe(task_names, d, c) ==
    FilterLoop(CompactLoop(task_names, <<>>), <<>>, c)

\* Mutation: without dedupe every name is looked up before the loop starts.
SelectEagerLookup(task_names, d, c) ==
    IF d
    THEN FilterLoop(CompactLoop(task_names, <<>>), <<>>, c)
    ELSE [ok |-> \A i \in 1..Len(task_names) : Resolves(task_names[i]),
          tasks |-> task_names]

\* The list of names to execute: the dedupe branch or the task list as is.
Select(task_names, d, c) ==
    IF d
    THEN FilterLoop(CompactLoop(task_names, <<>>), <<>>, c)
    ELSE [ok |-> TRUE, tasks |-> task_names]

\* Mutation: the context is not cloned: the update is made on the executor's
\* own context, which is then passed to the task.
BuildArgsNoClone(base, tname) ==
    IF contextualized[tname]
    THEN LET c == Update(base, Configuration(tname)) IN
         [args |-> <<c>>, base |-> c]
    ELSE [args |-> <<>>, base |-> base]

\* Mutation: the update is made the other way round, the base context's
\* values override the task's configuration.
BuildArgsBaseWins(base, tname) ==
    IF contextualized[tname]
    THEN [args |-> <<Update(Configuration(tname), Clone(base))>>,
          base |-> base]
    ELSE [args |-> <<>>, base |-> base]

\* The positional arguments of a call of task tname, built from the
\* executor's context base: a clone updated with the task's configuration
\* if the task is contextualized, none otherwise.  base is the executor's
\* context afterwards.
BuildArgs(base, tname) ==
    IF contextualized[tname]
    THEN [args |-> <<Update(Clone(base), Configuration(tname))>>,
          base |-> base]
    ELSE [args |-> <<>>, base |-> base]

\* Mutation: a task that is passed a context is passed no keyword arguments.
CallKwargsDropped(kw, tname) ==
    IF contextualized[tname] THEN EmptyDict ELSE kw

\* The keyword arguments of a call of task tname: t(*args, **kwargs).
CallKwargs(kw, tname) == kw

\* Mutation: the executor flags the task as called when it enters its body.
EnteredFlagged(st, tname) ==
    LET b == BuildArgs(st.context, tname) IN
    [st EXCEPT !.trace = Append(@, tname),
               !.args = Append(@, [args |-> b.args,
                                   kwargs |-> CallKwargs(st.kwargs, tname)]),
               !.context = b.base,
               !.called = [@ EXCEPT ![tname] = TRUE]]

\* The loop state once task tname has been looked up, its arguments built
\* and its body entered.
Entered(st, tname) ==
    LET b == BuildArgs(st.context, tname) IN
    [st EXCEPT !.trace = Append(@, tname),
               !.args = Append(@, [args |-> b.args,
                                   kwargs |-> CallKwargs(st.kwargs, tname)]),
               !.context = b.base]

\* Mutation: a body's error is held back and the rest of the list still
\* runs before the error is raised.
RECURSIVE RunLoopContinue(_, _, _, _)
RunLoopContinue(rest, st, call, fail) ==
    IF rest = <<>> THEN st
    ELSE LET tname == Head(rest) IN
         IF ~Resolves(tname) THEN [st EXCEPT !.err = "TaskNotFound"]
         ELSE LET idx == Len(st.trace) + 1 IN
              IF idx = fail
              THEN RunLoopContinue(Tail(rest),
                           [Entered(st, tname) EXCEPT
                                      !.failed = idx,
                                      !.err = "InvocationError"],
                           call, fail)
              ELSE RunLoopContinue(Tail(rest),
                           [Entered(st, tname) EXCEPT
                              !.called = TaskCall(@, tname),
                              !.results = (tname :> Result(call, idx)) @@ @],
                           call, fail)

\* Mutation: when a body raises, the executor clears that task's called flag.
RECURSIVE RunLoopResetOnFail(_, _, _, _)
RunLoopResetOnFail(rest, st, call, fail) ==
    IF rest = <<>> THEN st
    ELSE LET tname == Head(rest) IN
         IF ~Resolves(tname) THEN [st EXCEPT !.err = "TaskNotFound"]
         ELSE LET idx == Len(st.trace) + 1 IN
              IF idx = fail
              THEN [Entered(st, tname) EXCEPT
                              !.failed = idx,
                              !.called = [@ EXCEPT ![tname] = FALSE],
                              !.err = "InvocationError"]
              ELSE RunLoopResetOnFail(Tail(rest),
                           [Entered(st, tname) EXCEPT
                              !.called = TaskCall(@, tname),
                              !.results = (tname :> Result(call, idx)) @@ @],
                           call, fail)

\* The execution loop.  st = [called, context, kwargs, results, trace, args,
\* failed, err]; call is
\* the number of this execute() call; the fail-th invocation of the call
\* raises (fail = 0: every body succeeds).  A name is looked up, then the
\* task is invoked; its result is stored under the task once it returns.
RECURSIVE RunLoop(_, _, _, _)
RunLoop(rest, st, call, fail) ==
    IF rest = <<>> THEN st
    ELSE LET tname == Head(rest) IN
         IF ~Resolves(tname) THEN [st EXCEPT !.err = "TaskNotFound"]
         ELSE LET idx == Len(st.trace) + 1 IN
              IF idx = fail
              THEN [Entered(st, tname) EXCEPT
                              !.failed = idx,
                              !.err = "InvocationError"]
              ELSE RunLoop(Tail(rest),
                           [Entered(st, tname) EXCEPT
                              !.called = TaskCall(@, tname),
                              !.results = (tname :> Result(call, idx)) @@ @],
                           call, fail)

\* Mutation: the value of some recorded task is returned, not the root's.
ReturnValueAny(results, root) ==
    results[CHOOSE t \in DOMAIN results : TRUE]

\* return results[task]
ReturnValue(results, root) == results[root]

\* The loop state when the loop starts: results = {}.
Start(kw) ==
    [called |-> called, context |-> context, kwargs |-> KwargsOrEmpty(kw),
     results |-> EmptyDict, trace |-> <<>>, args |-> <<>>, failed |-> 0,
     err |-> "none"]

\* execute() ending with error e in loop state st.
Raise(e, st) ==
    [outcome |-> "raised", error |-> e, called |-> st.called,
     context |-> st.context, trace |-> st.trace, args |-> st.args,
     failed |-> st.failed, retval |-> NoValue]

\* Mutation: a root that dedupe has removed from the list is detected before
\* the loop runs, and MissingResult is raised at once.
ExecuteResolvedFailFast(n, d, kw, call, fail) ==
    LET sel == Select(TaskNames(n), d, called) IN
    IF ~sel.ok THEN Raise("TaskNotFound", Start(kw))
    ELSE IF ~Has(sel.tasks, n) THEN Raise("MissingResult", Start(kw))
    ELSE LET st == RunLoop(sel.tasks, Start(kw), call, fail)
         IN IF st.err # "none" THEN Raise(st.err, st)
            ELSE [outcome |-> "returned", error |-> "none",
                  called |-> st.called, context |-> st.context,
                  trace |-> st.trace, args |-> st.args,
                  failed |-> st.failed,
                  retval |-> ReturnValue(st.results, n)]

\* execute(n, dedupe=d, kwargs=kw) once the root name has resolved.
ExecuteResolved(n, d, kw, call, fail) ==
    LET sel == Select(TaskNames(n), d, called) IN
    IF ~sel.ok THEN Raise("TaskNotFound", Start(kw))
    ELSE LET st == RunLoop(sel.tasks, Start(kw), call, fail)
         IN IF st.err # "none" THEN Raise(st.err, st)
            ELSE IF n \notin DOMAIN st.results
            THEN Raise("MissingResult", st)
            ELSE [outcome |-> "returned", error |-> "none",
                  called |-> st.called, context |-> st.context,
                  trace |-> st.trace, args |-> st.args,
                  failed |-> st.failed,
                  retval |-> ReturnValue(st.results, n)]

\* Mutation: an unresolved root name is swallowed and nothing is returned.
ExecuteCallLenient(n, d, kw, call, fail) ==
    IF ~Resolves(n)
    THEN [outcome |-> "returned", error |-> "none", called |-> called,
          context |-> context, trace |-> <<>>, args |-> <<>>, failed |-> 0,
          retval |-> NoValue]
    ELSE ExecuteResolved(n, d, kw, call, fail)

\* One whole execute(n, dedupe=d, kwargs=kw) call from the current state.
ExecuteCall(n, d, kw, call, fail) ==
    IF ~Resolves(n) THEN Raise("TaskNotFound", Start(kw))
    ELSE ExecuteResolved(n, d, kw, call, fail)

\* The tasks of a call's trace whose body completed: every invocation but
\* the one that raised.
Completed(tr, f) == {tr[i] : i \in (1..Len(tr)) \ {f}}

\* A session before its first call, over a collection with at most maxdeps
\* prerequisite entries in total.  The executor treats all resolving names
\* alike, so every collection is a renaming of one whose pre lists have
\* lengths Len(A) >= Len(B) >= Len(C); those are enumerated.
InitSession(maxdeps) ==
    /\ \E la \in 0..maxdeps :
       \E lb \in 0..(maxdeps - la) :
       \E lc \in 0..(maxdeps - la - lb) :
       /\ la >= lb
       /\ lb >= lc
       /\
          \E pa \in [1..la -> Names], pb \in [1..lb -> Names],
             pc \in [1..lc -> Names] :
             pre = [t \in Tasks |->
                      IF t = "A" THEN pa ELSE IF t = "B" THEN pb ELSE pc]
    /\ context = BaseContext
    /\ called = [t \in Tasks |-> FALSE]
    /\ ncalls = 0
    /\ name = Unknown
    /\ dedupe = TRUE
    /\ kwargs = <<>>
    /\ called0 = [t \in Tasks |-> FALSE]
    /\ trace = <<>>
    /\ args = <<>>
    /\ failed = 0
    /\ outcome = "none"
    /\ error = "none"
    /\ retval = NoValue
    /\ ever = {}
    /\ succeeded = {}

\* Collections with at most MaxDeps prerequisite entries, in which B and C
\* are contextualized and A is not.
Init ==
    /\ InitSession(MaxDeps)
    /\ contextualized = [t \in Tasks |-> t # "A"]

\* executor.execute(n, kwargs, dedupe=d), the fail-th invoked body raising;
\* kw = <<>> when kwargs is omitted, <<m>> when the mapping m is given.
ExecuteKw(n, d, kw, fail) ==
    /\ ncalls < MaxCalls
    /\ \E r \in {ExecuteCall(n, d, kw, ncalls + 1, fail)} :
       /\ called' = r.called
       /\ context' = r.context
       /\ trace' = r.trace
       /\ args' = r.args
       /\ failed' = r.failed
       /\ outcome' = r.outcome
       /\ error' = r.error
       /\ retval' = r.retval
       /\ ever' = ever \cup Range(r.trace)
       /\ succeeded' = succeeded \cup Completed(r.trace, r.failed)
    /\ ncalls' = ncalls + 1
    /\ name' = n
    /\ dedupe' = d
    /\ kwargs' = kw
    /\ called0' = called
    /\ UNCHANGED <<pre, contextualized>>

\* executor.execute(n, dedupe=d), the fail-th invoked body raising.
Execute(n, d, fail) == ExecuteKw(n, d, <<>>, fail)

\* The number of invocations execute(n, dedupe=d) makes from the current
\* state when no body raises; any one of them may be the one that raises.
Invocations(n, d) == Len(ExecuteCall(n, d, <<>>, ncalls + 1, 0).trace)

Next == \E n \in Names, d \in BOOLEAN :
            \E fail \in 0..Invocations(n, d) : Execute(n, d, fail)

Spec == Init /\ [][Next]_vars

\* Sessions in which every execute() call is made with dedupe=true.
NextDedupe == \E n \in Names :
                  \E fail \in 0..Invocations(n, TRUE) : Execute(n, TRUE, fail)

SpecDedupe == Init /\ [][NextDedupe]_vars

\* Sessions over collections with at most MaxDeps - 2 prerequisite entries
\* and any choice of contextualized tasks, whose execute() calls are made
\* with or without kwargs.
InitArgs ==
    /\ InitSession(MaxDeps - 2)
    /\ contextualized \in [Tasks -> BOOLEAN]

NextArgs == \E n \in Names, d \in BOOLEAN, kw \in KwargsGiven :
                \E fail \in 0..Invocations(n, d) : ExecuteKw(n, d, kw, fail)

SpecArgs == InitArgs /\ [][NextArgs]_vars

(***************************************************************************)
(* Helpers for stating the claims, independent of the executor's loops.    *)
(***************************************************************************)

\* The elements of s at the positions in I, in their order in s.
Pick(s, I) ==
    LET ith(k) == CHOOSE i \in I : Cardinality({j \in I : j < i}) = k - 1
    IN [k \in 1..Cardinality(I) |-> s[ith(k)]]

\* s with every name kept only at its first occurrence.
FirstOccurrences(s) ==
    Pick(s, {i \in 1..Len(s) : \A j \in 1..(i - 1) : s[j] # s[i]})

\* s without the names whose task had called = true when the call started.
MinusCalled0(s) ==
    Pick(s, {i \in 1..Len(s) : ~(Resolves(s[i]) /\ called0[s[i]])})

\* Number of times x occurs in s.
Occurrences(s, x) == Cardinality({i \in 1..Len(s) : s[i] = x})

\* No name occurs twice in s.
Distinct(s) == \A i, j \in 1..Len(s) : s[i] = s[j] => i = j

\* A call has been made and its root name resolved.
RootResolved == outcome # "none" /\ Resolves(name)

\* Every name in the root's pre list resolves.
PreResolves == \A p \in Range(pre[name]) : Resolves(p)

(***************************************************************************)
(* C1                                                                      *)
(***************************************************************************)

\* C1 (as stated): in a session of dedupe=true calls, every task is invoked
\* at most once in total: no call invokes a task twice, nor a task that an
\* earlier call of the session invoked.
C1_InvokedAtMostOnce ==
    [][\A t \in Range(trace') :
           t \notin ever /\ Occurrences(trace', t) = 1]_vars

\* C1 (amended): in a session of dedupe=true calls, no call invokes a task
\* twice, nor a task one of whose invocations has already completed; so every
\* task completes at most once in the session.  A task whose body raised may
\* be invoked again by a later call.
C1_NotInvokedAfterSuccess ==
    [][\A t \in Range(trace') :
           t \notin succeeded /\ Occurrences(trace', t) = 1]_vars

\* C1 witness: a second dedupe=true call returned after skipping a
\* prerequisite that an earlier call had run.
C1_Witness ==
    /\ ncalls = 2 /\ dedupe /\ outcome = "returned"
    /\ \E p \in Range(pre[name]) :
          Resolves(p) /\ p \in succeeded /\ p \notin Range(trace)

(***************************************************************************)
(* C2                                                                      *)
(***************************************************************************)

\* The root's prerequisites are distinct tasks other than the root, none of
\* them called when the call started, and no body raised.
C2_Pre ==
    /\ RootResolved
    /\ Distinct(pre[name])
    /\ \A p \in Range(pre[name]) : Resolves(p) /\ p # name /\ ~called0[p]
    /\ failed = 0

\* The call invoked exactly P1,...,Pn,T in that order, returned, and left
\* all of them called.
C2_Post ==
    /\ outcome = "returned"
    /\ trace = pre[name] \o <<name>>
    /\ \A t \in Range(pre[name]) \cup {name} : called[t]

\* C2 (as stated): for a task T with distinct, uncalled prerequisites other
\* than T and bodies that succeed, execute(T) invokes exactly P1,...,Pn,T in
\* order and leaves them all called.
C2_ChainInOrder == C2_Pre => C2_Post

\* C2 (amended): the same, provided T itself is not yet called or dedupe is
\* false.
C2_ChainInOrderUncalledRoot ==
    (C2_Pre /\ (~called0[name] \/ ~dedupe)) => C2_Post

\* C2 witness: a call with two prerequisites ran them and the root in order.
C2_Witness ==
    /\ C2_Pre /\ ~called0[name]
    /\ Len(pre[name]) = 2
    /\ trace = <<pre[name][1], pre[name][2], name>>
    /\ outcome = "returned"

(***************************************************************************)
(* C3                                                                      *)
(***************************************************************************)

\* C3: a value returned by execute() is the result of an invocation of the
\* root task made by that same call.
C3_ReturnsRootResult ==
    outcome = "returned" =>
        /\ retval.call = ncalls
        /\ retval.idx \in 1..Len(trace)
        /\ trace[retval.idx] = name

\* C3 witness: the second call of a session returned after invoking a
\* prerequisite and then the root.
C3_Witness ==
    /\ ncalls = 2 /\ outcome = "returned"
    /\ Len(trace) >= 2
    /\ trace[1] # name
    /\ retval = Result(2, Len(trace))

(***************************************************************************)
(* C4                                                                      *)
(***************************************************************************)

\* A dedupe=true call was made on a root that was already called.
C4_Pre == RootResolved /\ dedupe /\ called0[name]

\* C4 (as stated): a dedupe=true call on an already-called root does not
\* invoke the root and fails with the lookup error (MissingResult).
C4_CalledRootMissingResult ==
    C4_Pre =>
        /\ name \notin Range(trace)
        /\ outcome = "raised"
        /\ error = "MissingResult"

\* C4 (amended): a dedupe=true call on an already-called root does not invoke
\* the root and returns no value; it fails with MissingResult when every
\* prerequisite name resolves and no prerequisite body raises, and otherwise
\* with that earlier error.  When the prerequisites were all called as well,
\* nothing is invoked and the error is MissingResult.
C4_CalledRootFails ==
    C4_Pre =>
        /\ name \notin Range(trace)
        /\ outcome = "raised"
        /\ retval = NoValue
        /\ error = IF ~PreResolves THEN "TaskNotFound"
                   ELSE IF failed # 0 THEN "InvocationError"
                   ELSE "MissingResult"
        /\ (\A p \in Range(pre[name]) : Resolves(p) /\ called0[p]) =>
               (trace = <<>> /\ error = "MissingResult")

\* C4 witness: A.pre = [B], A and B both called; the second call,
\* execute('A', dedupe=true), invoked nothing and raised MissingResult.
C4_Witness ==
    /\ C4_Pre /\ ncalls = 2
    /\ Len(pre[name]) = 1
    /\ pre[name][1] # name
    /\ Resolves(pre[name][1]) /\ called0[pre[name][1]]
    /\ trace = <<>>
    /\ error = "MissingResult"

(***************************************************************************)
(* C5                                                                      *)
(***************************************************************************)

\* A dedupe=true call on a resolving root in which no body raised.
C5_Pre == RootResolved /\ dedupe /\ failed = 0

\* The invoked sequence is pre + [name], first occurrences only, minus the
\* names whose task was called when the call started.
C5_Post == trace = MinusCalled0(FirstOccurrences(pre[name] \o <<name>>))

\* C5 (as stated): with dedupe=true and bodies succeeding, the invoked
\* sequence is the compacted list minus the already-called names.
C5_DedupeList == C5_Pre => C5_Post

\* C5 (amended): the same, provided every name in the pre list resolves.
C5_DedupeListResolved == (C5_Pre /\ PreResolves) => C5_Post

\* C5 witness: a pre list with a repeated name and an already-called name;
\* the call invoked the remaining prerequisite once and then the root.
C5_Witness ==
    /\ C5_Pre /\ PreResolves /\ outcome = "returned"
    /\ ~Distinct(pre[name])
    /\ \E p \in Range(pre[name]) : called0[p]
    /\ \E p \in Range(pre[name]) : p # name /\ ~called0[p]
    /\ Len(trace) = 2

(***************************************************************************)
(* C6                                                                      *)
(***************************************************************************)

\* A dedupe=false call on a resolving root in which no body raised.
C6_Pre == RootResolved /\ ~dedupe /\ failed = 0

\* Every occurrence in pre + [name] was invoked, in list order.
C6_Post ==
    /\ trace = pre[name] \o <<name>>
    /\ Len(trace) = Len(pre[name]) + 1

\* C6 (as stated): with dedupe=false and bodies succeeding, every occurrence
\* in pre + [name] is invoked in order: len(pre) + 1 invocations.
C6_FullList == C6_Pre => C6_Post

\* C6 (amended): the same, provided every name in the pre list resolves.
C6_FullListResolved == (C6_Pre /\ PreResolves) => C6_Post

\* C6 witness: a dedupe=false call whose pre list repeats a name and names
\* an already-called task invoked every occurrence.
C6_Witness ==
    /\ C6_Pre /\ PreResolves /\ outcome = "returned"
    /\ ~Distinct(pre[name])
    /\ \E p \in Range(pre[name]) : called0[p]
    /\ Len(trace) = Len(pre[name]) + 1

(***************************************************************************)
(* C7                                                                      *)
(***************************************************************************)

\* The list the call set out to execute.
ExecutionList ==
    IF dedupe THEN MinusCalled0(FirstOccurrences(pre[name] \o <<name>>))
    ELSE pre[name] \o <<name>>

\* C7: when a body raises, the call raises that error and returns nothing;
\* the failing invocation is the last one of the call (nothing later in the
\* list runs, nothing is retried), and only the tasks run before it have
\* been flagged.
C7_FailureAborts ==
    failed # 0 =>
        /\ outcome = "raised"
        /\ error = "InvocationError"
        /\ retval = NoValue
        /\ failed = Len(trace)
        /\ Len(trace) <= Len(ExecutionList)
        /\ \A i \in 1..Len(trace) : trace[i] = ExecutionList[i]
        /\ called = [t \in Tasks |->
                       called0[t] \/ t \in Range(SubSeq(trace, 1, failed - 1))]

\* C7 witness: the second of two prerequisites raised; the root was not
\* invoked and is not flagged.
C7_Witness ==
    /\ failed = 2 /\ Len(trace) = 2
    /\ name \notin Range(trace)
    /\ Len(ExecutionList) = 3
    /\ called[trace[1]] /\ ~called[trace[2]] /\ ~called[name]

(***************************************************************************)
(* C8                                                                      *)
(***************************************************************************)

\* C8: a call whose root name does not resolve raises TaskNotFound, invokes
\* nothing and leaves every called flag as it was.
C8_UnknownRoot ==
    (outcome # "none" /\ ~Resolves(name)) =>
        /\ outcome = "raised"
        /\ error = "TaskNotFound"
        /\ retval = NoValue
        /\ trace = <<>>
        /\ called = called0

\* C8 witness: a dedupe=false call on an unknown name, in a session where a
\* task had already been called, raised TaskNotFound.
C8_Witness ==
    /\ outcome = "raised" /\ ~Resolves(name) /\ ~dedupe
    /\ error = "TaskNotFound"
    /\ \E t \in Tasks : called[t]

(***************************************************************************)
(* C9                                                                      *)
(***************************************************************************)

\* C9: no step of a session turns a called flag from true to false.
C9_CalledMonotonic ==
    [][\A t \in Tasks : called[t] => called'[t]]_vars

\* C9 witness: a dedupe=false call re-invoked an already-called task, its
\* body raised, and the task is still flagged.
C9_Witness ==
    /\ failed # 0 /\ failed = Len(trace)
    /\ called0[trace[failed]]
    /\ called[trace[failed]]

(***************************************************************************)
(* C10                                                                     *)
(***************************************************************************)

\* C10: a call invokes, and flags, only tasks named in the root's own pre
\* list or the root itself.
C10_OneLevel ==
    RootResolved =>
        /\ Range(trace) \subseteq Range(pre[name]) \cup {name}
        /\ \A t \in Tasks \ (Range(pre[name]) \cup {name}) :
               called[t] = called0[t]

\* C10 witness: A.pre = [B], B.pre = [C]: the call invoked B then A and
\* returned; C is still uncalled.
C10_Witness ==
    /\ RootResolved /\ outcome = "returned"
    /\ Len(pre[name]) = 1
    /\ LET b == pre[name][1] IN
       /\ Resolves(b) /\ b # name
       /\ Len(pre[b]) = 1
       /\ LET c == pre[b][1] IN
          /\ Resolves(c) /\ c # name /\ c # b
          /\ ~called[c]
       /\ trace = <<b, name>>

(***************************************************************************)
(* C11                                                                     *)
(***************************************************************************)

\* c is the mapping b merged with the mapping m, m winning on shared keys.
IsMerge(c, b, m) ==
    /\ DOMAIN c = DOMAIN b \cup DOMAIN m
    /\ \A k \in DOMAIN c : c[k] = IF k \in DOMAIN m THEN m[k] ELSE b[k]

\* C11: every invocation of a contextualized task gets one positional
\* argument, the base context merged with the task's configuration
\* (configuration winning); every other invocation gets no positional
\* argument.
C11_ContextPassed ==
    /\ Len(args) = Len(trace)
    /\ \A i \in 1..Len(trace) :
          IF contextualized[trace[i]]
          THEN /\ Len(args[i].args) = 1
               /\ IsMerge(args[i].args[1], BaseContext,
                          Configuration(trace[i]))
          ELSE args[i].args = <<>>

\* C11 witness: A.pre = [B], A contextualized and B not: B was called with
\* no context, A with the base context in which A's configuration has
\* replaced the value of x.
C11_Witness ==
    /\ outcome = "returned" /\ name = "A"
    /\ trace = <<"B", "A">>
    /\ contextualized["A"] /\ ~contextualized["B"]
    /\ args[1].args = <<>>
    /\ args[2].args = <<[x |-> "A", z |-> "base"]>>

(***************************************************************************)
(* C12                                                                     *)
(***************************************************************************)

\* C12: every invocation of a call gets the kwargs mapping given to
\* execute() (the empty mapping when none was given).
C12_KwargsForwarded ==
    \A i \in 1..Len(args) :
        /\ kwargs # <<>> => args[i].kwargs = kwargs[1]
        /\ kwargs = <<>> => args[i].kwargs = EmptyDict

\* C12 witness: a call given myarg='foo' invoked a contextualized
\* prerequisite and then the root, both with myarg='foo'.
C12_Witness ==
    /\ outcome = "returned" /\ Len(trace) = 2
    /\ kwargs = <<[myarg |-> "foo"]>>
    /\ trace[1] # name /\ contextualized[trace[1]]
    /\ args[1].kwargs = [myarg |-> "foo"]
    /\ args[2].kwargs = [myarg |-> "foo"]

(***************************************************************************)
(* C13                                                                     *)
(***************************************************************************)

\* C13: the executor's own context always equals the one it was constructed
\* with, and a context passed to a task holds no key that comes from another
\* task's configuration.
C13_BaseContextUnchanged ==
    /\ context = BaseContext
    /\ \A i \in 1..Len(args) : \A c \in Range(args[i].args) :
          DOMAIN c \subseteq
              DOMAIN BaseContext \cup DOMAIN Configuration(trace[i])

\* C13 witness: in one call the contextualized tasks B and A were invoked,
\* each with its own configuration merged in; the executor's context is
\* still the base context and A's context has no key of B's.
C13_Witness ==
    /\ trace = <<"B", "A">> /\ failed = 0
    /\ contextualized["A"] /\ contextualized["B"]
    /\ "y" \in DOMAIN args[1].args[1]
    /\ "y" \notin DOMAIN args[2].args[1]
    /\ context = BaseContext

(***************************************************************************)
(* C14                                                                     *)
(***************************************************************************)

\* The root was invoked by the latest call.
C14_Pre == RootResolved /\ name \in Range(trace)

\* C14 (as stated): in a call that invokes the root, the root is the last
\* task invoked, whatever the pre list.
C14_RootLast == C14_Pre => trace[Len(trace)] = name

\* C14 (amended): in a call that invokes the root and whose pre list does
\* not name the root itself, the root is invoked once, as the last
\* invocation of the call.
C14_RootLastUnlessSelfNamed ==
    (C14_Pre /\ name \notin Range(pre[name])) =>
        /\ trace[Len(trace)] = name
        /\ Occurrences(trace, name) = 1

\* C14 witness: a dedupe=false call with two prerequisites invoked them and
\* then the root.
C14_Witness ==
    /\ C14_Pre /\ ~dedupe
    /\ name \notin Range(pre[name])
    /\ Len(pre[name]) = 2
    /\ Len(trace) = 3
    /\ trace[3] = name

(***************************************************************************)
(* C15                                                                     *)
(***************************************************************************)

\* C15: a task is flagged called exactly when one of its invocations has
\* completed in the session.
C15_CalledIffSucceeded ==
    \A t \in Tasks : called[t] <=> t \in succeeded

\* C15 witness: a second, dedupe=true call skipped a prerequisite that had
\* already run (it stays flagged) and invoked a task whose body raised
\* (it stays unflagged).
C15_Witness ==
    /\ ncalls = 2 /\ dedupe /\ failed # 0
    /\ ~called[trace[failed]]
    /\ \E p \in Range(pre[name]) :
          Resolves(p) /\ called0[p] /\ called[p] /\ p \notin Range(trace)

(***************************************************************************)
(* C16                                                                     *)
(***************************************************************************)

\* C16: when a dedupe=true call on an already-called root ends with
\* MissingResult, every prerequisite that was not yet called has been
\* invoked, in order, and all prerequisites are flagged.
C16_MissingResultAfterPrerequisites ==
    (C4_Pre /\ error = "MissingResult") =>
        /\ trace = MinusCalled0(FirstOccurrences(pre[name]))
        /\ \A p \in Range(pre[name]) : called[p]

\* C16 witness: the root was already called, its prerequisite was not: the
\* prerequisite was invoked and flagged, then MissingResult was raised.
C16_Witness ==
    /\ C4_Pre /\ error = "MissingResult"
    /\ Len(trace) = 1
    /\ ~called0[trace[1]] /\ called[trace[1]]

(***************************************************************************)
(* C17                                                                     *)
(***************************************************************************)

\* C17: a dedupe=true call whose pre list holds a name that does not resolve
\* raises TaskNotFound, invokes nothing and changes no flag.
C17_DedupeUnknownPrerequisite ==
    (RootResolved /\ dedupe /\ ~PreResolves) =>
        /\ outcome = "raised"
        /\ error = "TaskNotFound"
        /\ trace = <<>>
        /\ called = called0

\* C17 witness: pre = [P, X] with P a task not yet called: the call raised
\* TaskNotFound and P is still uncalled.
C17_Witness ==
    /\ RootResolved /\ dedupe /\ error = "TaskNotFound"
    /\ Len(pre[name]) = 2
    /\ Resolves(pre[name][1]) /\ pre[name][1] # name
    /\ ~Resolves(pre[name][2])
    /\ ~called[pre[name][1]]

(***************************************************************************)
(* C18                                                                     *)
(***************************************************************************)

\* Position in the root's pre list of the first name that does not resolve.
FirstUnresolved ==
    CHOOSE k \in 1..Len(pre[name]) :
        /\ ~Resolves(pre[name][k])
        /\ \A j \in 1..(k - 1) : Resolves(pre[name][j])

\* C18: in a dedupe=false call whose k-th name is the first that does not
\* resolve, only the k-1 tasks before it are invoked, in order; when
\* TaskNotFound is raised they have all been invoked and flagged; it is
\* raised unless one of their bodies raised first.
C18_LazyLookup ==
    (RootResolved /\ ~dedupe /\ ~PreResolves) =>
        /\ outcome = "raised"
        /\ Len(trace) <= FirstUnresolved - 1
        /\ \A i \in 1..Len(trace) : trace[i] = pre[name][i]
        /\ error = "TaskNotFound" =>
              /\ Len(trace) = FirstUnresolved - 1
              /\ \A i \in 1..(FirstUnresolved - 1) : called[pre[name][i]]
        /\ failed = 0 => error = "TaskNotFound"

\* C18 witness: pre = [P, X, Q], P and Q uncalled tasks: P was invoked and
\* flagged, TaskNotFound was raised and Q was not invoked.
C18_Witness ==
    /\ RootResolved /\ ~dedupe /\ error = "TaskNotFound"
    /\ Len(pre[name]) = 3
    /\ FirstUnresolved = 2
    /\ Resolves(pre[name][3])
    /\ trace = <<pre[name][1]>>
    /\ ~called0[pre[name][1]] /\ called[pre[name][1]]
    /\ ~called[pre[name][3]] /\ ~called[name]

(***************************************************************************)
(* C19                                                                     *)
(***************************************************************************)

\* C19: every call ends, returning a value or raising an error, after at
\* most len(pre) + 1 invocations, none of them beyond the occurrences of the
\* task in pre + [name].
C19_BoundedInvocations ==
    outcome # "none" =>
        /\ outcome \in {"returned", "raised"}
        /\ outcome = "returned" <=> error = "none"
        /\ IF Resolves(name)
           THEN /\ Len(trace) <= Len(pre[name]) + 1
                /\ \A t \in Tasks :
                      Occurrences(trace, t)
                          <= Occurrences(pre[name] \o <<name>>, t)
           ELSE trace = <<>>

\* C19 witness: two tasks that name each other as prerequisite: a
\* dedupe=false call on one of them invoked the other, then the root, and
\* returned.
C19_Witness ==
    /\ RootResolved /\ ~dedupe /\ outcome = "returned"
    /\ Len(pre[name]) = 1
    /\ LET p == pre[name][1] IN
       /\ Resolves(p) /\ p # name
       /\ pre[p] = <<name>>
       /\ trace = <<p, name>>

====
